---------------------------- MODULE Spec2Model ----------------------------
(*************************************************************************)
(* IKNP OT extension (src/mpc/ot/iknp_ote.hpp): the extension sender     *)
(* (Send / OnesidedSend), the extension receiver (Receive /              *)
(* OnesidedReceive), the channel between them, and the persistence of    *)
(* the public parameters (SavePP / FetchPP).                             *)
(*                                                                       *)
(* Scale.  The source works on 128-bit blocks and 128 base OTs.  Here a  *)
(* block has BlockBits bits and there are BASE_LEN = BlockBits base OTs, *)
(* so every "128" of the source reads BlockBits, and a byte of packed    *)
(* bits ("/8") reads one bit: a dense bit array is a sequence of bits.   *)
(* All indices below are the source's 0-based indices; sequences are     *)
(* 1-based, so element k of the source is element k+1 here.              *)
(*************************************************************************)
EXTENDS Integers, Sequences, FiniteSets, TLC

\* ------------------------------------------------------------- bounds
BlockBits == 2      \* bits of a block (128 in the source)
MaxBlocks == 2      \* EXTEND_LEN ranges over 1 .. MaxBlocks*BlockBits
NumSel    == 4      \* number of receiver selection vectors tried per length
NumMsg    == 2      \* number of sender message vectors tried per length
MaxByte   == 3      \* a byte of the PP file ranges over 0 .. MaxByte
PointBytes == 2     \* bytes of the serialized base-OT parameter
MaxDimBlocks == 4   \* CheckParameters is tried on dimensions 0 .. MaxDimBlocks*BlockBits

\* the default length of base OT: one block (iknp_ote.hpp:16, 128 = one block)
BASE_LEN == BlockBits

Pow2(n) == 2 ^ n
BlockMod == Pow2(BlockBits)

\* ------------------------------------------------------------- blocks
Bit == {0, 1}
Blocks == [1..BlockBits -> Bit]
ZeroBlock == [k \in 1..BlockBits |-> 0]
OnesBlock == [k \in 1..BlockBits |-> 1]

RECURSIVE BitsToInt(_, _)
BitsToInt(b, n) == IF n = 0 THEN 0 ELSE b[n] * Pow2(n - 1) + BitsToInt(b, n - 1)
BlockToInt(b) == BitsToInt(b, BlockBits)
IntToBlock(x) == [k \in 1..BlockBits |-> (x \div Pow2(k - 1)) % 2]

\* block ^ block
XorBlock(a, b) == [k \in 1..BlockBits |-> (a[k] + b[k]) % 2]

\* Block::XOR on two block vectors of the same length
BlockXOR(va, vb) == [k \in 1..Len(va) |-> XorBlock(va[k], vb[k])]

\* Block::FromDenseBits(ptr + offset, bit_count, out, bit_count/128):
\* block k of the output is bits offset + k*BlockBits .. of the packed array.
FromDenseBits(dense, offset, bit_count) ==
    [k \in 1..(bit_count \div BlockBits) |->
        [b \in 1..BlockBits |-> dense[offset + (k - 1) * BlockBits + b]]]

\* Block::FromSparseBits(bits, bit_count, out, bit_count/128): packs an array
\* holding one bit per entry into blocks, in the order FromDenseBits reads them.
FromSparseBits(bits, bit_count) ==
    [k \in 1..(bit_count \div BlockBits) |->
        [b \in 1..BlockBits |-> bits[(k - 1) * BlockBits + b]]]

\* Block::ToDenseBits(blocks, n, out, n*128): the packed bits of n blocks.
ToDenseBits(blocks, n) ==
    [p \in 1..(n * BlockBits) |->
        blocks[((p - 1) \div BlockBits) + 1][((p - 1) % BlockBits) + 1]]

\* empBitMatrixTranspose(src, rows, cols, dst): src is column-major
\* (element (r, c) at c*rows + r); dst holds element (r, c) at r*cols + c.
empBitMatrixTranspose(src, rows, cols) ==
    [p \in 1..(rows * cols) |->
        src[((p - 1) % cols) * rows + ((p - 1) \div cols) + 1]]

WriteBitsAtStart(dense, offset, bits) ==
    [p \in 1..Len(dense) |-> IF p <= Len(bits) THEN bits[p] ELSE dense[p]]

\* writes `bits` into `dense` from bit offset `offset` on
WriteBits(dense, offset, bits) ==
    [p \in 1..Len(dense) |->
        IF p > offset /\ p <= offset + Len(bits) THEN bits[p - offset] ELSE dense[p]]

ZeroBits(n) == [p \in 1..n |-> 0]

\* ------------------------------------------------------------- PRG, hash
\* A PRG::Seed is a key and the number of blocks drawn since it was keyed.
\* Block k of the stream of a key is a fixed function of (key, k).
StreamBlock(key, k) == IntToBlock((3 * BlockToInt(key) + k + 1) % BlockMod)

\* PRG::SetSeed(nullptr, 0) keys the seed with fresh randomness `key`.
SetSeed(key) == [key |-> key, counter |-> 0]
ReSeedContinue(seed, key) == [key |-> key, counter |-> seed.counter]
\* PRG::ReSeed(seed, &key, 0)
ReSeed(seed, key) == [key |-> key, counter |-> 0]
\* PRG::GenRandomBlocks(seed, n): the next n blocks of the stream.
GenRandomBlocks(seed, n) == [k \in 1..n |-> StreamBlock(seed.key, seed.counter + k - 1)]
\* the seed after n blocks were drawn from it
Advance(seed, n) == [seed EXCEPT !.counter = @ + n]
\* GenRandomBits(seed, n): n bits, one per entry, from the next n/128 blocks.
GenRandomBits(seed, n) == ToDenseBits(GenRandomBlocks(seed, n \div BlockBits), n \div BlockBits)
\* PRG::GenRandomBitMatrix(seed, rows, cols): rows*cols packed bits.
GenRandomBitMatrix(seed, rows, cols) ==
    ToDenseBits(GenRandomBlocks(seed, (rows * cols) \div BlockBits), (rows * cols) \div BlockBits)

\* A call made on a PRG::Seed object.  op: SetSeed, ReSeed or Gen; src: the
\* vector a ReSeed takes its key from, or what the output of a Gen is used as;
\* idx: the index into that vector, or the column; key: the key of the stream
\* after the call; drawn: the blocks drawn from the stream of the seed object
\* when the call is made; out: the blocks a Gen returns.
PrgCall(op, src, idx, key, drawn, out) ==
    [op |-> op, src |-> src, idx |-> idx, key |-> key, drawn |-> drawn, out |-> out]
\* A seed object together with the calls made on it so far.
PrgSetSeed(key) ==
    [seed |-> SetSeed(key), log |-> <<PrgCall("SetSeed", "fresh", 0, key, 0, <<>>)>>]
\* (the state before the call is taken as the one member of a set, so that
\* it is computed once for all its uses)
PrgReSeed(st, src, idx, key) ==
    CHOOSE after \in
        {[seed |-> ReSeed(x.seed, key),
          log |-> Append(x.log, PrgCall("ReSeed", src, idx, key, x.seed.counter, <<>>))]
            : x \in {st}} : TRUE
PrgGen(st, use, idx, n) ==
    CHOOSE after \in
        {[seed |-> Advance(x.seed, n),
          log |-> Append(x.log, PrgCall("Gen", use, idx, x.seed.key, x.seed.counter,
                                        GenRandomBlocks(x.seed, n)))]
            : x \in {st}} : TRUE
\* what the Gen call for `use` of column idx returned
PrgOut(st, use, idx) ==
    LET k == CHOOSE k \in 1..Len(st.log) :
                 st.log[k].op = "Gen" /\ st.log[k].src = use /\ st.log[k].idx = idx
    IN st.log[k].out

\* The hash is one fixed public function both parties use; which one is not
\* decided here: "perm" is collision free, "fold" has collisions.
HashIds == {"perm", "fold"}
HashBlock(h, b) ==
    IF h = "perm" THEN IntToBlock((3 * BlockToInt(b) + 1) % BlockMod)
    ELSE IntToBlock(BlockToInt(b) \div 2)
\* Hash::BlocksToBlock(vec): compresses a block vector to one block.
RECURSIVE HashFold(_, _, _)
HashFold(h, vec, n) ==
    IF n = 0 THEN ZeroBlock
    ELSE HashBlock(h, XorBlock(HashFold(h, vec, n - 1), vec[n]))
BlocksToBlock(h, vec) == HashFold(h, vec, Len(vec))


\* ------------------------------------------------------------- inputs
\* the k-th selection vector of length n tried for the receiver
SelVector(k, n) ==
    [p \in 1..n |->
        IF k = 0 THEN 0
        ELSE IF k = 1 THEN 1
        ELSE IF k = 2 THEN (p - 1) % 2
        ELSE IF k = 3 THEN p % 2
        ELSE (((p - 1) \div 2) + k) % 2]
\* the k-th pair of message vectors of length n tried for the sender
MsgVector0(k, n) == [p \in 1..n |-> IntToBlock((p - 1 + k) % BlockMod)]
MsgVector1(k, n) ==
    [p \in 1..n |->
        XorBlock(IntToBlock((p - 1 + k) % BlockMod),
                 IntToBlock((BlockMod - 1 - k) % BlockMod))]

\* the PP values: a malicious byte and the base-OT parameter
Bytes == 0..MaxByte
ByteMod == MaxByte + 1
\* NPOT::PP: a group element, written to a file as PointBytes bytes
BasePPs == [g : 0..(ByteMod ^ PointBytes - 1)]
PPs == [malicious : Bytes, baseOT : BasePPs]
\* PP pp; as declared (iknp_ote.hpp:32-36): malicious = 0, baseOT default
DefaultPP == [malicious |-> 0, baseOT |-> [g |-> 0]]

\* Setup(): malicious = 0 and the base-OT parameter NPOT::Setup() returns
Setup(base) == [malicious |-> 0, baseOT |-> base]

\* ------------------------------------------------------------- state
VARIABLES
    variant,              \* "std": Send/Receive; "os": OnesidedSend/OnesidedReceive
    EXTEND_LEN,           \* the EXTEND_LEN argument of both parties
    hashId,               \* which hash function Hash::BlocksToBlock is
    vec_m0, vec_m1,       \* Send's messages
    vec_m,                \* OnesidedSend's messages
    r_vec_selection_bit,  \* Receive's vec_selection_bit argument
    \* sender locals
    s_pc, s_seed, s_vec_selection_bit, vec_K, s_j, s_vec_inner_C0, Q, s_i,
    s_prg,                \* every PRG call the sender made on its seed, in order
    \* receiver locals
    r_pc, r_seed, T, vec_K0, vec_K1, r_j, r_vec_outer_C0, r_vec_outer_C1,
    r_i, vec_result, returned,
    r_prg,                \* every PRG call the receiver made on its seed, in order
    \* NetIO: the blocks in flight in each direction, and every send call made
    chanSR, chanRS, wire,
    sent,                 \* the blocks of every send call, in the order of wire
    reads,                \* every receive call that returned, in order
    \* public parameters and their file
    pp, file, pp_saved, pp_fetched, pp_status,
    \* a call of CheckParameters on its own: its arguments and its outcome
    check_call

cfgVars == <<variant, EXTEND_LEN, hashId, vec_m0, vec_m1, vec_m, r_vec_selection_bit>>
sndVars == <<s_pc, s_seed, s_vec_selection_bit, vec_K, s_j, s_vec_inner_C0, Q, s_i, s_prg>>
rcvVars == <<r_pc, r_seed, T, vec_K0, vec_K1, r_j, r_vec_outer_C0, r_vec_outer_C1,
             r_i, vec_result, returned, r_prg>>
netVars == <<chanSR, chanRS, wire, sent, reads>>
ppVars  == <<pp, file, pp_saved, pp_fetched, pp_status>>
chkVars == <<check_call>>
vars == <<cfgVars, sndVars, rcvVars, netVars, ppVars, chkVars>>

ROW_NUM == EXTEND_LEN        \* size_t ROW_NUM = EXTEND_LEN
COLUMN_NUM == BASE_LEN       \* size_t COLUMN_NUM = BASE_LEN
RowBlocks == ROW_NUM \div BlockBits   \* ROW_NUM/128

\* what the caller of Receive / OnesidedReceive holds
NoResult == [ok |-> FALSE, value |-> <<>>]

\* ------------------------------------------------------------- NetIO
Take(ch, n) == SubSeq(ch, 1, n)
Drop(ch, n) == SubSeq(ch, n + 1, Len(ch))
\* a ReceiveBlocks(ptr, n) call returns once n blocks have arrived
CanReceive(ch, n) == Len(ch) >= n
WireEntry(from, tag, idx, len) == [from |-> from, tag |-> tag, idx |-> idx, len |-> len]
\* the blocks a send call hands to NetIO
SentEntry(from, blocks) == [from |-> from, blocks |-> blocks]
\* a receive call: who made it, what it is reading, and the blocks it returned
ReadEntry(by, tag, idx, blocks) == [by |-> by, tag |-> tag, idx |-> idx, blocks |-> blocks]

\* ------------------------------------------------------------- entry check
CheckParametersAnd(rows, cols) ==
    ~(rows % BlockBits # 0 /\ cols % BlockBits # 0)

CheckParametersRowsOnly(rows, cols) ==
    ~(rows % BlockBits # 0)

\* CheckParameters: TRUE when it returns, FALSE when it exits
CheckParameters(rows, cols) ==
    ~(rows % BlockBits # 0 \/ cols % BlockBits # 0)


\* ------------------------------------------------------------- base OT
\* NPOT::Receive/NPOT::Send, an opaque sub-protocol on the same NetIO: the
\* base-OT receiver sends BASE_LEN public keys (opaque here), the base-OT sender
\* answers with the two key vectors under those public keys, and the base-OT
\* receiver can open, for each index, the one its selection bit names.
BasePublicKeys == [k \in 1..BASE_LEN |-> ZeroBlock]
BaseAnswer(K0, K1) == K0 \o K1
BaseOpen(Y, bits) ==
    [k \in 1..BASE_LEN |-> IF bits[k] = 0 THEN Y[k] ELSE Y[BASE_LEN + k]]

\* ------------------------------------------------------------- Init
Variants == {"std", "os"}
Lengths == 1..(MaxBlocks * BlockBits)
ZeroSeed == [key |-> ZeroBlock, counter |-> 0]

SenderIdle ==
    /\ s_pc = "entry"
    /\ s_seed = ZeroSeed
    /\ s_vec_selection_bit = <<>>
    /\ vec_K = <<>>
    /\ s_j = 0
    /\ s_vec_inner_C0 = <<>>
    /\ Q = <<>>
    /\ s_i = 0
    /\ s_prg = <<>>

ReceiverIdle ==
    /\ r_pc = "entry"
    /\ r_seed = ZeroSeed
    /\ T = <<>>
    /\ vec_K0 = <<>>
    /\ vec_K1 = <<>>
    /\ r_j = 0
    /\ r_vec_outer_C0 = <<>>
    /\ r_vec_outer_C1 = <<>>
    /\ r_i = 0
    /\ vec_result = <<>>
    /\ returned = NoResult
    /\ r_prg = <<>>

NetIdle == chanSR = <<>> /\ chanRS = <<>> /\ wire = <<>> /\ sent = <<>> /\ reads = <<>>

\* no PP file exists; nothing was saved or fetched
NoFile == [exists |-> FALSE, bytes |-> <<>>]
PPIdle ==
    /\ file = NoFile
    /\ pp_saved = DefaultPP
    /\ pp_fetched = DefaultPP
    /\ pp_status = "idle"

\* CheckParameters is not being called on its own
NoCheck == [rows |-> 0, cols |-> 0, pc |-> "idle"]

\* one protocol run: both parties are called with the same variant and length
Init ==
    /\ variant \in Variants
    /\ EXTEND_LEN \in Lengths
    /\ hashId \in HashIds
    /\ \E k \in 0..(NumMsg - 1) :
          /\ vec_m0 = IF variant = "std" THEN MsgVector0(k, EXTEND_LEN) ELSE <<>>
          /\ vec_m1 = IF variant = "std" THEN MsgVector1(k, EXTEND_LEN) ELSE <<>>
          /\ vec_m  = IF variant = "os" THEN MsgVector1(k, EXTEND_LEN) ELSE <<>>
    /\ \E k \in 0..(NumSel - 1) : r_vec_selection_bit = SelVector(k, EXTEND_LEN)
    /\ SenderIdle
    /\ ReceiverIdle
    /\ NetIdle
    /\ pp = Setup(DefaultPP.baseOT)
    /\ PPIdle
    /\ check_call = NoCheck

\* ------------------------------------------------------------- sender
\* Send / OnesidedSend up to the row loop are the same code (99-174, 317-392).

\* CheckParameters(ROW_NUM, COLUMN_NUM) at entry
S_CheckParameters ==
    /\ s_pc = "entry"
    /\ s_pc' = IF CheckParameters(ROW_NUM, COLUMN_NUM) THEN "base_send" ELSE "aborted"
    /\ UNCHANGED <<s_seed, s_vec_selection_bit, vec_K, s_j, s_vec_inner_C0, Q, s_i, s_prg>>
    /\ UNCHANGED <<cfgVars, rcvVars, netVars, ppVars, chkVars>>

\* the PRG calls of lines 116-120: SetSeed, then GenRandomBits for s
SenderSetup(key) == PrgGen(PrgSetSeed(key), "s", 0, BASE_LEN \div BlockBits)

\* SetSeed, GenRandomBits, and NPOT::Receive up to its first receive
S_BaseOTRequest ==
    /\ s_pc = "base_send"
    /\ \E key \in Blocks : \E st \in {SenderSetup(key)} :
          /\ s_vec_selection_bit' = ToDenseBits(PrgOut(st, "s", 0), BASE_LEN \div BlockBits)
          /\ s_seed' = st.seed
          /\ s_prg' = st.log
    /\ chanSR' = chanSR \o BasePublicKeys
    /\ wire' = Append(wire, WireEntry("S", "base_pk", 0, BASE_LEN))
    /\ sent' = Append(sent, SentEntry("S", BasePublicKeys))
    /\ s_pc' = "base_wait"
    /\ UNCHANGED <<vec_K, s_j, s_vec_inner_C0, Q, s_i, chanRS, reads>>
    /\ UNCHANGED <<cfgVars, rcvVars, ppVars, chkVars>>

\* NPOT::Receive returns vec_K; the buffers and Q are allocated (zeroed)
S_BaseOTFinish ==
    /\ s_pc = "base_wait"
    /\ CanReceive(chanRS, 2 * BASE_LEN)
    /\ vec_K' = BaseOpen(Take(chanRS, 2 * BASE_LEN), s_vec_selection_bit)
    /\ chanRS' = Drop(chanRS, 2 * BASE_LEN)
    /\ Q' = ZeroBits(ROW_NUM * COLUMN_NUM)
    /\ s_j' = 0
    /\ reads' = Append(reads, ReadEntry("S", "base_Y", 0, Take(chanRS, 2 * BASE_LEN)))
    /\ s_pc' = "recv_C0"
    /\ UNCHANGED <<s_seed, s_vec_selection_bit, s_vec_inner_C0, s_i, s_prg, chanSR, wire, sent>>
    /\ UNCHANGED <<cfgVars, rcvVars, ppVars, chkVars>>

\* io.ReceiveBlocks(vec_inner_C0.data(), ROW_NUM/128)
S_ReceiveC0 ==
    /\ s_pc = "recv_C0"
    /\ CanReceive(chanRS, RowBlocks)
    /\ s_vec_inner_C0' = Take(chanRS, RowBlocks)
    /\ chanRS' = Drop(chanRS, RowBlocks)
    /\ reads' = Append(reads, ReadEntry("S", "C0", s_j, Take(chanRS, RowBlocks)))
    /\ s_pc' = "recv_C1"
    /\ UNCHANGED <<s_seed, s_vec_selection_bit, vec_K, s_j, Q, s_i, s_prg, chanSR, wire, sent>>
    /\ UNCHANGED <<cfgVars, rcvVars, ppVars, chkVars>>

SenderPlaintextSwapped(bit, C0, C1, pad) ==
    IF bit = 0 THEN BlockXOR(C1, pad) ELSE BlockXOR(C0, pad)

\* vec_plaintext of the column: C0 or C1 under the pad, by the base selection bit
SenderPlaintext(bit, C0, C1, pad) ==
    IF bit = 0 THEN BlockXOR(C0, pad) ELSE BlockXOR(C1, pad)

SenderPadFirstKey(st, K, j) ==
    PrgGen(PrgReSeed(st, "K", 0, K[1]), "pad", j, RowBlocks)

\* the PRG calls of column j (146-147): reseed from K[j], draw the pad
SenderPad(st, K, j) ==
    PrgGen(PrgReSeed(st, "K", j, K[j + 1]), "pad", j, RowBlocks)

\* io.ReceiveBlocks(vec_inner_C1...), then the rest of the column loop body
S_ReceiveC1 ==
    /\ s_pc = "recv_C1"
    /\ CanReceive(chanRS, RowBlocks)
    /\ \E st \in {SenderPad([seed |-> s_seed, log |-> s_prg], vec_K, s_j)} :
       LET vec_inner_C1 == Take(chanRS, RowBlocks)
           vec_pad == PrgOut(st, "pad", s_j)
           vec_plaintext == SenderPlaintext(s_vec_selection_bit[s_j + 1],
                                            s_vec_inner_C0, vec_inner_C1, vec_pad)
       IN /\ s_seed' = st.seed
          /\ s_prg' = st.log
          /\ Q' = WriteBits(Q, s_j * ROW_NUM, ToDenseBits(vec_plaintext, RowBlocks))
    /\ chanRS' = Drop(chanRS, RowBlocks)
    /\ reads' = Append(reads, ReadEntry("S", "C1", s_j, Take(chanRS, RowBlocks)))
    /\ s_j' = s_j + 1
    /\ s_pc' = IF s_j + 1 < BASE_LEN THEN "recv_C0" ELSE "outer"
    /\ UNCHANGED <<s_vec_selection_bit, vec_K, s_vec_inner_C0, s_i, chanSR, wire, sent>>
    /\ UNCHANGED <<cfgVars, rcvVars, ppVars, chkVars>>

RowBlockFirstRow(M_transpose, i) == FromDenseBits(M_transpose, 0, BASE_LEN)

\* Q_row_block of row i, loaded from the transposed matrix
RowBlock(M_transpose, i) == FromDenseBits(M_transpose, i * COLUMN_NUM, BASE_LEN)

OuterC1NoSelection(h, m1_i, Q_row_block, vec_selection_block) ==
    XorBlock(m1_i, BlocksToBlock(h, Q_row_block))

OuterC0Flagged(h, m0_i, Q_row_block) ==
    IF pp.malicious = 1
    THEN XorBlock(XorBlock(m0_i, BlocksToBlock(h, Q_row_block)), OnesBlock)
    ELSE XorBlock(m0_i, BlocksToBlock(h, Q_row_block))

\* vec_outer_C0[i] and vec_outer_C1[i] (187-188)
OuterC0(h, m0_i, Q_row_block) == XorBlock(m0_i, BlocksToBlock(h, Q_row_block))
OuterC1(h, m1_i, Q_row_block, vec_selection_block) ==
    XorBlock(m1_i, BlocksToBlock(h, BlockXOR(Q_row_block, vec_selection_block)))

\* the sender's two outer ciphertext vectors, from Q, s and the messages
SenderOuter0 ==
    LET Q_tanspose == empBitMatrixTranspose(Q, ROW_NUM, COLUMN_NUM)
    IN [p \in 1..ROW_NUM |-> OuterC0(hashId, vec_m0[p], RowBlock(Q_tanspose, p - 1))]
SenderOuter1 ==
    LET Q_tanspose == empBitMatrixTranspose(Q, ROW_NUM, COLUMN_NUM)
        vec_selection_block == FromSparseBits(s_vec_selection_bit, BASE_LEN)
    IN [p \in 1..ROW_NUM |->
          OuterC1(hashId, vec_m1[p], RowBlock(Q_tanspose, p - 1), vec_selection_block)]

OuterSendsSwapped(C0, C1) ==
    <<[tag |-> "outer_C1", blocks |-> C1], [tag |-> "outer_C0", blocks |-> C0]>>

\* the two SendBlocks calls that end Send, in program order (190-191)
OuterSends(C0, C1) ==
    <<[tag |-> "outer_C0", blocks |-> C0], [tag |-> "outer_C1", blocks |-> C1]>>

\* Send: transpose Q, mask the messages, send outer_C0 then outer_C1, return
S_SendOuter ==
    /\ s_pc = "outer"
    /\ variant = "std"
    /\ LET sends == OuterSends(SenderOuter0, SenderOuter1)
       IN /\ chanSR' = chanSR \o sends[1].blocks \o sends[2].blocks
          /\ wire' = wire \o <<WireEntry("S", sends[1].tag, 0, Len(sends[1].blocks)),
                               WireEntry("S", sends[2].tag, 0, Len(sends[2].blocks))>>
          /\ sent' = sent \o <<SentEntry("S", sends[1].blocks), SentEntry("S", sends[2].blocks)>>
    /\ s_i' = ROW_NUM
    /\ s_pc' = "done"
    /\ UNCHANGED <<s_seed, s_vec_selection_bit, vec_K, s_j, s_vec_inner_C0, Q, s_prg,
                   chanRS, reads>>
    /\ UNCHANGED <<cfgVars, rcvVars, ppVars, chkVars>>

OnesidedOuterCReversed(i) ==
    LET Q_tanspose == empBitMatrixTranspose(Q, ROW_NUM, COLUMN_NUM)
        vec_selection_block == FromSparseBits(s_vec_selection_bit, BASE_LEN)
    IN OuterC1(hashId, vec_m[ROW_NUM - i], RowBlock(Q_tanspose, ROW_NUM - 1 - i),
               vec_selection_block)

\* outer_C of row i in OnesidedSend (401)
OnesidedOuterC(i) ==
    LET Q_tanspose == empBitMatrixTranspose(Q, ROW_NUM, COLUMN_NUM)
        vec_selection_block == FromSparseBits(s_vec_selection_bit, BASE_LEN)
    IN OuterC1(hashId, vec_m[i + 1], RowBlock(Q_tanspose, i), vec_selection_block)

\* OnesidedSend: one pass of the row loop, io.SendBlock(outer_C)
S_SendRow ==
    /\ s_pc = "outer"
    /\ variant = "os"
    /\ s_i < ROW_NUM
    /\ chanSR' = Append(chanSR, OnesidedOuterC(s_i))
    /\ wire' = Append(wire, WireEntry("S", "outer_C", s_i, 1))
    /\ sent' = Append(sent, SentEntry("S", <<OnesidedOuterC(s_i)>>))
    /\ s_i' = s_i + 1
    /\ s_pc' = IF s_i + 1 < ROW_NUM THEN "outer" ELSE "done"
    /\ UNCHANGED <<s_seed, s_vec_selection_bit, vec_K, s_j, s_vec_inner_C0, Q, s_prg,
                   chanRS, reads>>
    /\ UNCHANGED <<cfgVars, rcvVars, ppVars, chkVars>>

SenderStep ==
    \/ S_CheckParameters
    \/ S_BaseOTRequest
    \/ S_BaseOTFinish
    \/ S_ReceiveC0
    \/ S_ReceiveC1
    \/ S_SendOuter
    \/ S_SendRow


\* ------------------------------------------------------------- receiver
\* Receive / OnesidedReceive up to the transpose are the same code
\* (204-270, 422-486).

\* the value the caller of Receive / OnesidedReceive gets when the run is at
\* pc: the only return statement is the last one (314, 520)
ReturnedPartial(pc, result) == [ok |-> TRUE, value |-> result]

Returned(pc, result) ==
    IF pc = "done" THEN [ok |-> TRUE, value |-> result] ELSE NoResult

\* vec_result is allocated (Receive: EXTEND_LEN zero blocks; OnesidedReceive:
\* empty), then CheckParameters(ROW_NUM, COLUMN_NUM)
R_CheckParameters ==
    /\ r_pc = "entry"
    /\ vec_result' = IF variant = "std" THEN [p \in 1..EXTEND_LEN |-> ZeroBlock] ELSE <<>>
    /\ r_pc' = IF CheckParameters(ROW_NUM, COLUMN_NUM) THEN "setup" ELSE "aborted"
    /\ UNCHANGED <<r_seed, T, vec_K0, vec_K1, r_j, r_vec_outer_C0, r_vec_outer_C1,
                   r_i, returned, r_prg>>
    /\ UNCHANGED <<cfgVars, sndVars, netVars, ppVars, chkVars>>

ReceiverSetupKeyedK1(key) ==
    LET st == PrgGen(PrgGen(PrgSetSeed(key), "T", 0, (ROW_NUM * COLUMN_NUM) \div BlockBits),
                     "K0", 0, BASE_LEN)
    IN PrgGen(PrgReSeed(st, "K0", 0, PrgOut(st, "K0", 0)[1]), "K1", 0, BASE_LEN)

\* the PRG calls of lines 217-222: SetSeed, GenRandomBitMatrix for T, then
\* GenRandomBlocks for K0 and for K1
ReceiverSetup(key) ==
    PrgGen(PrgGen(PrgGen(PrgSetSeed(key), "T", 0, (ROW_NUM * COLUMN_NUM) \div BlockBits),
                  "K0", 0, BASE_LEN),
           "K1", 0, BASE_LEN)

\* SetSeed, the random matrix T and the keys K0, K1; NPOT::Send then waits
R_Setup ==
    /\ r_pc = "setup"
    /\ \E key \in Blocks : \E st \in {ReceiverSetup(key)} :
          LET nT == (ROW_NUM * COLUMN_NUM) \div BlockBits
          IN /\ T' = ToDenseBits(PrgOut(st, "T", 0), nT)
             /\ vec_K0' = PrgOut(st, "K0", 0)
             /\ vec_K1' = PrgOut(st, "K1", 0)
             /\ r_seed' = st.seed
             /\ r_prg' = st.log
    /\ r_pc' = "base_wait"
    /\ UNCHANGED <<r_j, r_vec_outer_C0, r_vec_outer_C1, r_i, vec_result, returned>>
    /\ UNCHANGED <<cfgVars, sndVars, netVars, ppVars, chkVars>>

\* NPOT::Send(io, pp.baseOT, vec_K0, vec_K1, BASE_LEN)
R_BaseOT ==
    /\ r_pc = "base_wait"
    /\ CanReceive(chanSR, BASE_LEN)
    /\ chanSR' = Drop(chanSR, BASE_LEN)
    /\ chanRS' = chanRS \o BaseAnswer(vec_K0, vec_K1)
    /\ wire' = Append(wire, WireEntry("R", "base_Y", 0, 2 * BASE_LEN))
    /\ sent' = Append(sent, SentEntry("R", BaseAnswer(vec_K0, vec_K1)))
    /\ reads' = Append(reads, ReadEntry("R", "base_pk", 0, Take(chanSR, BASE_LEN)))
    /\ r_j' = 0
    /\ r_pc' = "column"
    /\ UNCHANGED <<r_seed, T, vec_K0, vec_K1, r_vec_outer_C0, r_vec_outer_C1,
                   r_i, vec_result, returned, r_prg>>
    /\ UNCHANGED <<cfgVars, sndVars, ppVars, chkVars>>

ColumnM1NoMatrix(col_m0, vec_selection_block) == vec_selection_block

\* vec_m1 of a column: the column of T xor the packed selection vector (252)
ColumnM1(col_m0, vec_selection_block) == BlockXOR(col_m0, vec_selection_block)

ColumnSendsOnlyC0(C0, C1) == <<[tag |-> "C0", blocks |-> C0]>>
ColumnSendsSwapped(C0, C1) ==
    <<[tag |-> "C1", blocks |-> C1], [tag |-> "C0", blocks |-> C0]>>

ColumnSendsMerged(C0, C1) == <<[tag |-> "C0", blocks |-> C0 \o C1]>>

\* the two SendBlocks calls of a column, in program order (262-263)
ColumnSends(C0, C1) ==
    <<[tag |-> "C0", blocks |-> C0], [tag |-> "C1", blocks |-> C1]>>

RECURSIVE Flatten(_, _)
Flatten(sends, n) ==
    IF n = 0 THEN <<>> ELSE Flatten(sends, n - 1) \o sends[n].blocks

ReceiverPadsOneSeed(st, K0, K1, j) ==
    PrgGen(PrgGen(PrgReSeed(st, "K0", j, K0[j + 1]), "pad0", j, RowBlocks),
           "pad1", j, RowBlocks)

\* the PRG calls of column j (254-259): reseed from K0[j], draw a pad, reseed
\* from K1[j], draw a pad
ReceiverPads(st, K0, K1, j) ==
    PrgGen(PrgReSeed(PrgGen(PrgReSeed(st, "K0", j, K0[j + 1]), "pad0", j, RowBlocks),
                     "K1", j, K1[j + 1]),
           "pad1", j, RowBlocks)

\* one pass of the column loop: encrypt column j of T and of T xor R, send both
R_Column ==
    /\ r_pc = "column"
    /\ r_j < COLUMN_NUM
    /\ \E st \in {ReceiverPads([seed |-> r_seed, log |-> r_prg], vec_K0, vec_K1, r_j)} :
       LET vec_selection_block == FromSparseBits(r_vec_selection_bit, ROW_NUM)
           col_m0 == FromDenseBits(T, r_j * ROW_NUM, ROW_NUM)
           col_m1 == ColumnM1(col_m0, vec_selection_block)
           vec_inner_C0 == BlockXOR(col_m0, PrgOut(st, "pad0", r_j))
           vec_inner_C1 == BlockXOR(col_m1, PrgOut(st, "pad1", r_j))
           sends == ColumnSends(vec_inner_C0, vec_inner_C1)
       IN /\ r_seed' = st.seed
          /\ r_prg' = st.log
          /\ chanRS' = chanRS \o Flatten(sends, Len(sends))
          /\ wire' = wire \o [k \in 1..Len(sends) |->
                                WireEntry("R", sends[k].tag, r_j, Len(sends[k].blocks))]
          /\ sent' = sent \o [k \in 1..Len(sends) |-> SentEntry("R", sends[k].blocks)]
    /\ r_j' = r_j + 1
    /\ r_pc' = IF r_j + 1 < COLUMN_NUM THEN "column"
               ELSE IF variant = "std" THEN "recv_outer_C0" ELSE "recv_row"
    /\ UNCHANGED <<T, vec_K0, vec_K1, r_vec_outer_C0, r_vec_outer_C1, r_i,
                   vec_result, returned>>
    /\ UNCHANGED <<cfgVars, sndVars, chanSR, reads, ppVars, chkVars>>

\* Receive: io.ReceiveBlocks(vec_outer_C0.data(), ROW_NUM)
R_ReceiveOuterC0 ==
    /\ r_pc = "recv_outer_C0"
    /\ CanReceive(chanSR, ROW_NUM)
    /\ r_vec_outer_C0' = Take(chanSR, ROW_NUM)
    /\ chanSR' = Drop(chanSR, ROW_NUM)
    /\ reads' = Append(reads, ReadEntry("R", "outer_C0", 0, Take(chanSR, ROW_NUM)))
    /\ r_pc' = "recv_outer_C1"
    /\ UNCHANGED <<r_seed, T, vec_K0, vec_K1, r_j, r_vec_outer_C1, r_i,
                   vec_result, returned, r_prg>>
    /\ UNCHANGED <<cfgVars, sndVars, chanRS, wire, sent, ppVars, chkVars>>

ReceiverUnmaskSwapped(h, bit, c0, c1, T_row_block) ==
    IF bit = 0 THEN XorBlock(c1, BlocksToBlock(h, T_row_block))
    ELSE XorBlock(c0, BlocksToBlock(h, T_row_block))

\* vec_result[i] (292-297)
ReceiverUnmask(h, bit, c0, c1, T_row_block) ==
    IF bit = 0 THEN XorBlock(c0, BlocksToBlock(h, T_row_block))
    ELSE XorBlock(c1, BlocksToBlock(h, T_row_block))

\* T_row_block of row i: transpose T, load row i
TRowBlock(i) == RowBlock(empBitMatrixTranspose(T, ROW_NUM, COLUMN_NUM), i)

\* Receive: io.ReceiveBlocks(vec_outer_C1...), unmask every row, return
R_ReceiveOuterC1 ==
    /\ r_pc = "recv_outer_C1"
    /\ CanReceive(chanSR, ROW_NUM)
    /\ r_vec_outer_C1' = Take(chanSR, ROW_NUM)
    /\ chanSR' = Drop(chanSR, ROW_NUM)
    /\ vec_result' = [p \in 1..ROW_NUM |->
                        ReceiverUnmask(hashId, r_vec_selection_bit[p], r_vec_outer_C0[p],
                                       Take(chanSR, ROW_NUM)[p], TRowBlock(p - 1))]
    /\ r_i' = ROW_NUM
    /\ r_pc' = "done"
    /\ returned' = Returned(r_pc', vec_result')
    /\ reads' = Append(reads, ReadEntry("R", "outer_C1", 0, Take(chanSR, ROW_NUM)))
    /\ UNCHANGED <<r_seed, T, vec_K0, vec_K1, r_j, r_vec_outer_C0, r_prg>>
    /\ UNCHANGED <<cfgVars, sndVars, chanRS, wire, sent, ppVars, chkVars>>

OnesidedAppendAlways(h, bit, result, outer_C, T_row_block) ==
    Append(result, XorBlock(outer_C, BlocksToBlock(h, T_row_block)))

\* vec_result after row i of OnesidedReceive: only decrypt when the bit is 1
OnesidedAppend(h, bit, result, outer_C, T_row_block) ==
    IF bit = 1 THEN Append(result, XorBlock(outer_C, BlocksToBlock(h, T_row_block)))
    ELSE result

OnesidedReadsIfSelected(bit) == bit

\* the blocks io.ReceiveBlock(outer_C) reads for a row: the call is made
\* before the selection bit is tested (496)
OnesidedReads(bit) == 1

\* OnesidedReceive: one pass of the row loop, io.ReceiveBlock(outer_C)
R_ReceiveRow ==
    /\ r_pc = "recv_row"
    /\ r_i < ROW_NUM
    /\ LET n == OnesidedReads(r_vec_selection_bit[r_i + 1])
           outer_C == IF n = 0 THEN ZeroBlock ELSE Head(chanSR)
       IN /\ CanReceive(chanSR, n)
          /\ vec_result' = OnesidedAppend(hashId, r_vec_selection_bit[r_i + 1], vec_result,
                                          outer_C, TRowBlock(r_i))
          /\ chanSR' = Drop(chanSR, n)
          /\ reads' = IF n = 0 THEN reads
                      ELSE Append(reads, ReadEntry("R", "outer_C", r_i, Take(chanSR, n)))
    /\ r_i' = r_i + 1
    /\ r_pc' = IF r_i + 1 < ROW_NUM THEN "recv_row" ELSE "done"
    /\ returned' = Returned(r_pc', vec_result')
    /\ UNCHANGED <<r_seed, T, vec_K0, vec_K1, r_j, r_vec_outer_C0, r_vec_outer_C1, r_prg>>
    /\ UNCHANGED <<cfgVars, sndVars, chanRS, wire, sent, ppVars, chkVars>>

ReceiverStep ==
    \/ R_CheckParameters
    \/ R_Setup
    \/ R_BaseOT
    \/ R_Column
    \/ R_ReceiveOuterC0
    \/ R_ReceiveOuterC1
    \/ R_ReceiveRow

Next == SenderStep \/ ReceiverStep

Spec == Init /\ [][Next]_vars


\* ------------------------------------------------------------- properties
ValidLength == EXTEND_LEN % BlockBits = 0
IsPrefix(a, b) == Len(a) <= Len(b) /\ a = SubSeq(b, 1, Len(a))
HasZeroAndOne(bits) == (\E p \in 1..Len(bits) : bits[p] = 0) /\ (\E p \in 1..Len(bits) : bits[p] = 1)
RECURSIVE HammingWeight(_, _)
HammingWeight(bits, n) == IF n = 0 THEN 0 ELSE bits[n] + HammingWeight(bits, n - 1)
\* the entries of m at the indices where bits is 1, in increasing index order
RECURSIVE PickOnes(_, _, _)
PickOnes(m, bits, n) ==
    IF n = 0 THEN <<>>
    ELSE IF bits[n] = 1 THEN Append(PickOnes(m, bits, n - 1), m[n])
    ELSE PickOnes(m, bits, n - 1)

\* C1: when Receive has returned in a run paired with Send, the result has
\* EXTEND_LEN entries and entry i is m0[i] if r[i] = 0 and m1[i] if r[i] = 1,
\* whatever s, T, K0 and K1 were drawn.
C1_StandardCorrect ==
    (variant = "std" /\ r_pc = "done") =>
        /\ returned.ok
        /\ Len(returned.value) = EXTEND_LEN
        /\ \A p \in 1..EXTEND_LEN :
              returned.value[p] =
                 IF r_vec_selection_bit[p] = 0 THEN vec_m0[p] ELSE vec_m1[p]
C1_Witness ==
    /\ variant = "std" /\ r_pc = "done" /\ s_pc = "done"
    /\ EXTEND_LEN = 2 * BlockBits
    /\ HasZeroAndOne(r_vec_selection_bit)
    /\ HasZeroAndOne(s_vec_selection_bit)
    /\ returned.ok

\* C2: when OnesidedReceive has returned in a run paired with OnesidedSend,
\* the result has as many entries as r has ones, and they are the messages at
\* the indices with r[i] = 1, in increasing index order.
C2_OnesidedCorrect ==
    (variant = "os" /\ r_pc = "done") =>
        /\ returned.ok
        /\ Len(returned.value) = HammingWeight(r_vec_selection_bit, EXTEND_LEN)
        /\ returned.value = PickOnes(vec_m, r_vec_selection_bit, EXTEND_LEN)
C2_Witness ==
    /\ variant = "os" /\ r_pc = "done" /\ s_pc = "done"
    /\ EXTEND_LEN = 2 * BlockBits
    /\ HasZeroAndOne(r_vec_selection_bit)
    /\ HasZeroAndOne(s_vec_selection_bit)
    /\ Len(returned.value) = BlockBits

\* the order of the send calls of a whole run
ExpectedBase ==
    <<WireEntry("S", "base_pk", 0, BASE_LEN), WireEntry("R", "base_Y", 0, 2 * BASE_LEN)>>
ExpectedColumns ==
    [k \in 1..(2 * BASE_LEN) |->
        WireEntry("R", IF k % 2 = 1 THEN "C0" ELSE "C1", (k - 1) \div 2, RowBlocks)]
ExpectedWireStd ==
    ExpectedBase \o ExpectedColumns
        \o <<WireEntry("S", "outer_C0", 0, EXTEND_LEN), WireEntry("S", "outer_C1", 0, EXTEND_LEN)>>
ExpectedWireOs ==
    ExpectedBase \o ExpectedColumns
        \o [k \in 1..EXTEND_LEN |-> WireEntry("S", "outer_C", k - 1, 1)]
IsOuter(e) == e.tag \in {"outer_C0", "outer_C1", "outer_C"}

\* C3: in a run of Send with Receive the send calls made so far are always an
\* initial part of: base OT, then C0 and C1 of column 0, 1, ..., then outer_C0,
\* then outer_C1; and an outer ciphertext is on the wire only when the sender
\* has received every column pair.
C3_WireOrderStd ==
    variant = "std" =>
        /\ IsPrefix(wire, ExpectedWireStd)
        /\ (\E k \in 1..Len(wire) : IsOuter(wire[k])) => s_j = BASE_LEN
C3_Witness ==
    variant = "std" /\ EXTEND_LEN = 2 * BlockBits /\ wire = ExpectedWireStd

\* the ciphertext of row i of the one-sided variant: m[i] under the hash of
\* row i of Q xor S
RowCiphertext(i) ==
    XorBlock(vec_m[i + 1],
             BlocksToBlock(hashId,
                 BlockXOR(FromDenseBits(empBitMatrixTranspose(Q, ROW_NUM, COLUMN_NUM),
                                        i * COLUMN_NUM, BASE_LEN),
                          FromSparseBits(s_vec_selection_bit, BASE_LEN))))

\* C4: in a run of OnesidedSend with OnesidedReceive the send calls are always
\* an initial part of: base OT, the column pairs, then one block per row in
\* increasing row order; the sender ends having sent exactly EXTEND_LEN row
\* blocks; and the blocks the receiver has still to read are the ciphertexts
\* of the rows from its own row index on, in order.
C4_WireOrderOs ==
    variant = "os" =>
        /\ IsPrefix(wire, ExpectedWireOs)
        /\ s_pc = "done" => wire = ExpectedWireOs
        /\ r_pc = "recv_row" =>
              chanSR = [k \in 1..(s_i - r_i) |-> RowCiphertext(r_i + k - 1)]
C4_Witness ==
    /\ variant = "os" /\ EXTEND_LEN = 2 * BlockBits
    /\ r_pc = "recv_row" /\ r_i = 1 /\ s_i = 3 /\ Len(chanSR) = 2


\* The runs with the hash and the messages held fixed: no step reads them
\* before the final masking, and no step's enabling or successor place depends
\* on them.
InitControl ==
    /\ Init
    /\ hashId = "perm"
    /\ vec_m0 = (IF variant = "std" THEN MsgVector0(0, EXTEND_LEN) ELSE <<>>)
    /\ vec_m1 = (IF variant = "std" THEN MsgVector1(0, EXTEND_LEN) ELSE <<>>)
    /\ vec_m = (IF variant = "os" THEN MsgVector1(0, EXTEND_LEN) ELSE <<>>)

\* a run with the hash and the messages held fixed
RunSpec == InitControl /\ [][Next]_vars

\* Each party is a running process of its own: whenever it has a step it can
\* take, it takes one.
FairSpec == InitControl /\ [][Next]_vars /\ WF_vars(SenderStep) /\ WF_vars(ReceiverStep)

\* both parties have returned, after exactly the send calls of a whole run, and
\* every block sent has been read
RunComplete ==
    /\ s_pc = "done"
    /\ r_pc = "done"
    /\ wire = IF variant = "std" THEN ExpectedWireStd ELSE ExpectedWireOs
    /\ chanSR = <<>>
    /\ chanRS = <<>>

\* C5: when both parties run the same variant with the same legal EXTEND_LEN,
\* both eventually return, after one base OT, BASE_LEN column pairs and the
\* final message(s), with no block left unread on the channel.
C5_Terminates == ValidLength ~> RunComplete
C5_Witness == ValidLength /\ RunComplete /\ EXTEND_LEN = 2 * BlockBits

\* C6: when EXTEND_LEN is not a multiple of the block width, neither party
\* gets past its entry check: nothing is ever sent or received, and each party
\* is either not yet started or aborted.
C6_RejectBeforeIO ==
    ~ValidLength =>
        /\ wire = <<>>
        /\ chanSR = <<>>
        /\ chanRS = <<>>
        /\ s_pc \in {"entry", "aborted"}
        /\ r_pc \in {"entry", "aborted"}
        /\ ~returned.ok
C6_Witness ==
    ~ValidLength /\ s_pc = "aborted" /\ r_pc = "aborted" /\ EXTEND_LEN > BlockBits


\* what the receiver gets by unmasking outer_C0[i] / outer_C1[i] with H(Trow_i)
Unmask0(p) == XorBlock(r_vec_outer_C0[p], BlocksToBlock(hashId, TRowBlock(p - 1)))
Unmask1(p) == XorBlock(r_vec_outer_C1[p], BlocksToBlock(hashId, TRowBlock(p - 1)))
\* H(Trow_i xor S) = H(Trow_i), S the packed base selection vector of the sender
MaskCollision(p) ==
    BlocksToBlock(hashId, BlockXOR(TRowBlock(p - 1),
                                   FromSparseBits(s_vec_selection_bit, BASE_LEN)))
        = BlocksToBlock(hashId, TRowBlock(p - 1))

\* C7 as stated: after an honest standard run, for every row, unmasking
\* outer_C0[i] with H(Trow_i) yields m0[i] if and only if r[i] = 0, and
\* unmasking outer_C1[i] yields m1[i] if and only if r[i] = 1, for every s
\* (taken here with the collision-free hash, the case most in its favour).
C7_ExclusiveAsStated ==
    (variant = "std" /\ r_pc = "done" /\ hashId = "perm") =>
        \A p \in 1..EXTEND_LEN :
            /\ (Unmask0(p) = vec_m0[p]) <=> (r_vec_selection_bit[p] = 0)
            /\ (Unmask1(p) = vec_m1[p]) <=> (r_vec_selection_bit[p] = 1)

\* C7 amended: the selected message is always recovered; unmasking the
\* unselected ciphertext with H(Trow_i) yields the unselected message exactly
\* when H(Trow_i xor S) = H(Trow_i), which is so whenever s is all zero.
C7_ExclusiveUnlessCollision ==
    (variant = "std" /\ r_pc = "done") =>
        \A p \in 1..EXTEND_LEN :
            /\ r_vec_selection_bit[p] = 0 =>
                  /\ Unmask0(p) = vec_m0[p]
                  /\ (Unmask1(p) = vec_m1[p]) <=> MaskCollision(p)
            /\ r_vec_selection_bit[p] = 1 =>
                  /\ Unmask1(p) = vec_m1[p]
                  /\ (Unmask0(p) = vec_m0[p]) <=> MaskCollision(p)
            /\ (\A k \in 1..BASE_LEN : s_vec_selection_bit[k] = 0) => MaskCollision(p)
            /\ (hashId = "perm" /\ \E k \in 1..BASE_LEN : s_vec_selection_bit[k] = 1)
                  => ~MaskCollision(p)
\* a finished standard run in which s is not zero, the hash is collision free,
\* rows of both kinds exist and no unselected message comes out
C7_Witness ==
    /\ variant = "std" /\ r_pc = "done" /\ hashId = "perm"
    /\ EXTEND_LEN = 2 * BlockBits
    /\ HasZeroAndOne(r_vec_selection_bit)
    /\ HasZeroAndOne(s_vec_selection_bit)
    /\ \A p \in 1..EXTEND_LEN :
          IF r_vec_selection_bit[p] = 0 THEN Unmask1(p) # vec_m1[p]
          ELSE Unmask0(p) # vec_m0[p]


\* the pad both parties derive from a base-OT key: reseed, draw ROW_NUM/128 blocks
ColumnPad(key) == GenRandomBlocks(ReSeed(ZeroSeed, key), RowBlocks)

\* What the sender sees of one column when the receiver holds column col_m0 of
\* T, the packed selection vector R and the keys K0_j, K1_j: its key, the
\* ciphertext that key opens, and the plaintext it stores as the column of Q.
SenderColumnView(bit, key, col_m0, R, K0_j, K1_j) ==
    LET C0 == BlockXOR(col_m0, ColumnPad(K0_j))
        C1 == BlockXOR(ColumnM1(col_m0, R), ColumnPad(K1_j))
    IN [key |-> key,
        cipher |-> IF bit = 0 THEN C0 ELSE C1,
        plain |-> SenderPlaintext(bit, C0, C1, ColumnPad(key))]
\* the views of a column that can arise over all choices of the column of T
ColumnViews(bit, key, R, K0_j, K1_j) ==
    {SenderColumnView(bit, key, col, R, K0_j, K1_j) : col \in [1..RowBlocks -> Blocks]}

\* the run up to the end of the sender's column loop, which is where the
\* sender's view of the receiver is made
NextColumns ==
    \/ S_CheckParameters
    \/ S_BaseOTRequest
    \/ S_BaseOTFinish
    \/ S_ReceiveC0
    \/ S_ReceiveC1
    \/ R_CheckParameters
    \/ R_Setup
    \/ R_BaseOT
    \/ R_Column
ColumnSpec == InitControl /\ [][NextColumns]_vars

\* C8: when the sender has finished its column loop, for every column its view
\* (key, decryptable ciphertext, column of Q) is one of the views that can
\* arise for the receiver's r, and the set of views that can arise over all
\* choices of the column of T is the set that arises for the all-zero
\* selection vector: it is the same set whatever r is, so the same for any two
\* selection vectors r and r' of the same length.  (The columns of T are
\* chosen independently, so the views of the whole matrix are the product of
\* the column views.)
C8_ReceiverPrivacy ==
    (s_pc = "outer" /\ s_i = 0) =>
        \A j \in 1..BASE_LEN :
            LET R == FromSparseBits(r_vec_selection_bit, ROW_NUM)
                actual == SenderColumnView(s_vec_selection_bit[j], vec_K[j],
                              FromDenseBits(T, (j - 1) * ROW_NUM, ROW_NUM), R,
                              vec_K0[j], vec_K1[j])
                views == ColumnViews(s_vec_selection_bit[j], vec_K[j], R,
                                     vec_K0[j], vec_K1[j])
            IN /\ actual.plain = FromDenseBits(Q, (j - 1) * ROW_NUM, ROW_NUM)
               /\ actual \in views
               /\ views = ColumnViews(s_vec_selection_bit[j], vec_K[j],
                                      FromSparseBits(SelVector(0, ROW_NUM), ROW_NUM),
                                      vec_K0[j], vec_K1[j])
\* the sender has finished its column loop with a base selection bit of each
\* kind, and the receiver's r is not constant
C8_Witness ==
    /\ s_pc = "outer" /\ s_i = 0
    /\ EXTEND_LEN = 2 * BlockBits
    /\ HasZeroAndOne(s_vec_selection_bit)
    /\ HasZeroAndOne(r_vec_selection_bit)


\* ------------------------------------------------------------- correlation
\* the blocks the sender read as ciphertext `tag` of column j
SenderRead(tag, j) ==
    LET k == CHOOSE k \in 1..Len(reads) :
                 reads[k].by = "S" /\ reads[k].tag = tag /\ reads[k].idx = j
    IN reads[k].blocks
\* the pad the sender drew in column j
SenderPadOf(j) == PrgOut([seed |-> s_seed, log |-> s_prg], "pad", j)

\* C11: at every point of the sender's column loop and after it, for every
\* column j the sender has processed, the column stored in Q is column j of T
\* if s[j] = 0 and column j of T xor the packed selection vector R if
\* s[j] = 1, and it is what C0 (s[j] = 0) or C1 (s[j] = 1) of the column gives
\* under the pad the sender drew from K[j].
C11_ColumnCorrelation ==
    s_pc \in {"recv_C0", "recv_C1", "outer", "done"} =>
        \A j \in 0..(s_j - 1) :
            LET Qcol == FromDenseBits(Q, j * ROW_NUM, ROW_NUM)
                Tcol == FromDenseBits(T, j * ROW_NUM, ROW_NUM)
                R == FromSparseBits(r_vec_selection_bit, ROW_NUM)
                C == IF s_vec_selection_bit[j + 1] = 0 THEN SenderRead("C0", j)
                     ELSE SenderRead("C1", j)
            IN /\ Qcol = IF s_vec_selection_bit[j + 1] = 0 THEN Tcol ELSE BlockXOR(Tcol, R)
               /\ Qcol = BlockXOR(C, SenderPadOf(j))
\* in the middle of the loop, with a column of each kind processed and a
\* selection vector that is neither all zero nor all one
C11_Witness ==
    /\ s_pc = "recv_C1" /\ s_j = BASE_LEN - 1
    /\ EXTEND_LEN = 2 * BlockBits
    /\ s_vec_selection_bit[1] = 1
    /\ HasZeroAndOne(r_vec_selection_bit)

\* row i of a column-major bit matrix with ROW_NUM rows, as one block vector
RowOf(M, i) == <<[j \in 1..BASE_LEN |-> M[(j - 1) * ROW_NUM + i + 1]]>>

\* C12: once the sender has left its column loop, for every row i the block
\* it loads from the transposed Q at offset i*COLUMN_NUM is row i of Q, the
\* block the receiver loads from the transposed T at that offset is row i of
\* T, and the Q row is the T row if r[i] = 0 and the T row xor S if r[i] = 1.
C12_RowCorrelation ==
    s_pc \in {"outer", "done"} =>
        LET Q_tanspose == empBitMatrixTranspose(Q, ROW_NUM, COLUMN_NUM)
            S == FromSparseBits(s_vec_selection_bit, BASE_LEN)
        IN \A i \in 0..(ROW_NUM - 1) :
              /\ RowBlock(Q_tanspose, i) = RowOf(Q, i)
              /\ TRowBlock(i) = RowOf(T, i)
              /\ RowBlock(Q_tanspose, i) =
                    IF r_vec_selection_bit[i + 1] = 0 THEN TRowBlock(i)
                    ELSE BlockXOR(TRowBlock(i), S)
\* rows of both kinds, a non-zero S, and two rows of T that differ
C12_Witness ==
    /\ s_pc = "outer" /\ r_pc \in {"recv_outer_C0", "recv_row"}
    /\ EXTEND_LEN = 2 * BlockBits
    /\ HasZeroAndOne(r_vec_selection_bit)
    /\ HasZeroAndOne(s_vec_selection_bit)
    /\ \E i \in 1..(ROW_NUM - 1) : TRowBlock(i) # TRowBlock(0)

\* ------------------------------------------------------------- PRG use
\* the pad and the key the receiver uses for base selection bit `bit`
PadUse(bit) == IF bit = 0 THEN "pad0" ELSE "pad1"
ReceiverKey(bit, j) == IF bit = 0 THEN vec_K0[j + 1] ELSE vec_K1[j + 1]

\* C13: every pad the sender drew was drawn right after a reseed from K[j],
\* and it is the pad the receiver drew right after its reseed from K0[j]
\* (s[j] = 0) or K1[j] (s[j] = 1): both are the first ROW_NUM/128 blocks of the
\* stream of that key, whatever was drawn from either seed object before.
C13_PadAgreement ==
    \A k \in 1..Len(s_prg) :
        (s_prg[k].op = "Gen" /\ s_prg[k].src = "pad") =>
            LET j == s_prg[k].idx
                bit == s_vec_selection_bit[j + 1]
            IN /\ s_prg[k - 1].op = "ReSeed"
               /\ s_prg[k - 1].key = vec_K[j + 1]
               /\ s_prg[k].out = GenRandomBlocks(SetSeed(vec_K[j + 1]), RowBlocks)
               /\ \E m \in 2..Len(r_prg) :
                     /\ r_prg[m].op = "Gen" /\ r_prg[m].src = PadUse(bit) /\ r_prg[m].idx = j
                     /\ r_prg[m - 1].op = "ReSeed" /\ r_prg[m - 1].key = ReceiverKey(bit, j)
                     /\ r_prg[m].out = s_prg[k].out
\* the sender drew a pad after a reseed made when its seed object had given a
\* different number of blocks than the receiver's had at the matching reseed
C13_Witness ==
    /\ EXTEND_LEN = 2 * BlockBits
    /\ \E k \in 2..Len(s_prg) : \E m \in 2..Len(r_prg) :
          /\ s_prg[k].op = "Gen" /\ s_prg[k].src = "pad"
          /\ r_prg[m].op = "Gen" /\ r_prg[m].idx = s_prg[k].idx
          /\ r_prg[m].src = PadUse(s_vec_selection_bit[s_prg[k].idx + 1])
          /\ s_prg[k - 1].drawn # r_prg[m - 1].drawn
          /\ s_prg[k].out = r_prg[m].out

\* what a call is, without the values: the operation, the key vector or use,
\* the index, and the number of blocks returned
Shape(call) == [op |-> call.op, src |-> call.src, idx |-> call.idx, n |-> Len(call.out)]
Shapes(log) == [k \in 1..Len(log) |-> Shape(log[k])]
CallShape(op, src, idx, n) == [op |-> op, src |-> src, idx |-> idx, n |-> n]
\* the calls of a whole run of each party
ExpectedSenderCalls ==
    <<CallShape("SetSeed", "fresh", 0, 0), CallShape("Gen", "s", 0, BASE_LEN \div BlockBits)>>
    \o [k \in 1..(2 * BASE_LEN) |->
          IF k % 2 = 1 THEN CallShape("ReSeed", "K", (k - 1) \div 2, 0)
          ELSE CallShape("Gen", "pad", (k - 1) \div 2, RowBlocks)]
ExpectedReceiverCalls ==
    <<CallShape("SetSeed", "fresh", 0, 0),
      CallShape("Gen", "T", 0, (ROW_NUM * COLUMN_NUM) \div BlockBits),
      CallShape("Gen", "K0", 0, BASE_LEN), CallShape("Gen", "K1", 0, BASE_LEN)>>
    \o [k \in 1..(4 * BASE_LEN) |->
          LET j == (k - 1) \div 4
          IN IF k % 4 = 1 THEN CallShape("ReSeed", "K0", j, 0)
             ELSE IF k % 4 = 2 THEN CallShape("Gen", "pad0", j, RowBlocks)
             ELSE IF k % 4 = 3 THEN CallShape("ReSeed", "K1", j, 0)
             ELSE CallShape("Gen", "pad1", j, RowBlocks)]

\* C14: the calls each party has made on its seed are always an initial part
\* of: the setup draws, then for column 0, 1, ... one reseed from K[j] and one
\* draw of ROW_NUM/128 blocks (sender), one reseed from K0[j], one draw, one
\* reseed from K1[j], one draw (receiver); a party that has left its column
\* loop has made exactly these calls, and makes no other in the final phase.
C14_SingleUse ==
    /\ IsPrefix(Shapes(s_prg), ExpectedSenderCalls)
    /\ IsPrefix(Shapes(r_prg), ExpectedReceiverCalls)
    /\ s_pc \in {"outer", "done"} => Shapes(s_prg) = ExpectedSenderCalls
    /\ r_pc \in {"recv_outer_C0", "recv_outer_C1", "recv_row", "done"}
          => Shapes(r_prg) = ExpectedReceiverCalls
    /\ \A j \in 0..(s_j - 1) :
          Cardinality({k \in 1..Len(s_prg) :
              s_prg[k].op = "ReSeed" /\ s_prg[k].src = "K" /\ s_prg[k].idx = j}) = 1
    /\ \A j \in 0..(r_j - 1) : \A src \in {"K0", "K1"} :
          Cardinality({k \in 1..Len(r_prg) :
              r_prg[k].op = "ReSeed" /\ r_prg[k].src = src /\ r_prg[k].idx = j}) = 1
\* both parties have returned from a run of two row blocks
C14_Witness ==
    /\ s_pc = "done" /\ r_pc = "done"
    /\ EXTEND_LEN = 2 * BlockBits
    /\ Len(s_prg) = 2 + 2 * BASE_LEN
    /\ Len(r_prg) = 4 + 4 * BASE_LEN

AuxUses == {"s", "T", "K0", "K1"}
PadUses == {"pad", "pad0", "pad1"}
\* C15: in the calls of either party, every draw of an auxiliary value (s;
\* T, K0, K1) comes before the first reseed and is from the stream of the
\* initial seed, every draw after a reseed is a pad, and the values the
\* parties hold are those draws of the initial seed's stream.
C15_AuxSeparation ==
    /\ \A log \in {s_prg, r_prg} : \A k \in 1..Len(log) :
          /\ (log[k].op = "Gen" /\ log[k].src \in AuxUses) =>
                /\ log[1].op = "SetSeed"
                /\ log[k].key = log[1].key
                /\ \A m \in 1..k : log[m].op # "ReSeed"
          /\ (log[k].op = "Gen" /\ \E m \in 1..k : log[m].op = "ReSeed") =>
                log[k].src \in PadUses
    /\ s_prg # <<>> =>
          s_vec_selection_bit = GenRandomBits(SetSeed(s_prg[1].key), BASE_LEN)
    /\ r_prg # <<>> =>
          LET seed0 == SetSeed(r_prg[1].key)
              seed1 == Advance(seed0, (ROW_NUM * COLUMN_NUM) \div BlockBits)
          IN /\ T = GenRandomBitMatrix(seed0, ROW_NUM, COLUMN_NUM)
             /\ vec_K0 = GenRandomBlocks(seed1, BASE_LEN)
             /\ vec_K1 = GenRandomBlocks(Advance(seed1, BASE_LEN), BASE_LEN)
\* both column loops are over, with reseeds in both logs
C15_Witness ==
    /\ s_pc = "outer" /\ s_i = 0 /\ r_j = COLUMN_NUM
    /\ EXTEND_LEN = 2 * BlockBits
    /\ \E k \in 1..Len(s_prg) : s_prg[k].op = "ReSeed"
    /\ \E k \in 1..Len(r_prg) : r_prg[k].op = "ReSeed"

\* C16: the extension sender is the party that opens the base OT with its
\* vector s, the extension receiver the party that offers K0 and K1: once the
\* base OT is complete the sender holds K[j] = K0[j] where s[j] = 0 and
\* K[j] = K1[j] where s[j] = 1, and every reseed the sender makes is from K[j]
\* of the column whose pad it then draws.
C16_RoleInversion ==
    /\ s_pc \in {"recv_C0", "recv_C1", "outer", "done"} =>
          /\ Len(vec_K) = BASE_LEN
          /\ \A j \in 0..(BASE_LEN - 1) :
                vec_K[j + 1] = ReceiverKey(s_vec_selection_bit[j + 1], j)
          /\ SubSeq(wire, 1, 2) = ExpectedBase
    /\ \A k \in 1..Len(s_prg) :
          s_prg[k].op = "ReSeed" =>
              /\ s_prg[k].src = "K"
              /\ s_prg[k].key = vec_K[s_prg[k].idx + 1]
              /\ k < Len(s_prg)
              /\ s_prg[k + 1].op = "Gen" /\ s_prg[k + 1].src = "pad"
              /\ s_prg[k + 1].idx = s_prg[k].idx
\* the sender is done, s has bits of both kinds, the two keys of every
\* index differ, and the keys the sender holds for two columns differ
C16_Witness ==
    /\ s_pc = "done"
    /\ EXTEND_LEN = 2 * BlockBits
    /\ HasZeroAndOne(s_vec_selection_bit)
    /\ \A j \in 1..BASE_LEN : vec_K0[j] # vec_K1[j]
    /\ vec_K[1] # vec_K[2]


\* ------------------------------------------------------------- entry check
\* CheckParameters called on its own, on any pair of dimensions
Dims == 0..(MaxDimBlocks * BlockBits)
InitCheck ==
    /\ variant = "std"
    /\ EXTEND_LEN = BlockBits
    /\ hashId = "perm"
    /\ vec_m0 = MsgVector0(0, EXTEND_LEN)
    /\ vec_m1 = MsgVector1(0, EXTEND_LEN)
    /\ vec_m = <<>>
    /\ r_vec_selection_bit = SelVector(0, EXTEND_LEN)
    /\ SenderIdle
    /\ ReceiverIdle
    /\ NetIdle
    /\ pp = Setup(DefaultPP.baseOT)
    /\ PPIdle
    /\ check_call \in [rows : Dims, cols : Dims, pc : {"called"}]
\* the call returns, or prints its message and exits
Check_Run ==
    /\ check_call.pc = "called"
    /\ check_call' = [check_call EXCEPT
          !.pc = IF CheckParameters(check_call.rows, check_call.cols)
                 THEN "returned" ELSE "exited"]
    /\ UNCHANGED <<cfgVars, sndVars, rcvVars, netVars, ppVars>>
NextCheck == Check_Run
CheckSpec == InitCheck /\ [][NextCheck]_vars

IsMultiple(n) == n % BlockBits = 0

\* C17 as stated: the entry check rejects every pair in which a dimension is
\* not a multiple of the block width or in which COLUMN_NUM is not BASE_LEN
\* (taken here on pairs of positive dimensions).
C17_RejectsAsStated ==
    (check_call.pc # "called" /\ check_call.rows > 0 /\ check_call.cols > 0
        /\ (~IsMultiple(check_call.rows) \/ ~IsMultiple(check_call.cols)
               \/ check_call.cols # BASE_LEN))
      => check_call.pc = "exited"

\* C17 amended: the entry check rejects a pair exactly when one of the two
\* dimensions is not a multiple of the block width; a COLUMN_NUM that is a
\* multiple of the block width other than BASE_LEN is accepted.
C17_RejectsNonMultiples ==
    check_call.pc # "called" =>
        /\ (check_call.pc = "exited") <=>
              (~IsMultiple(check_call.rows) \/ ~IsMultiple(check_call.cols))
        /\ (check_call.pc = "returned") <=>
              (IsMultiple(check_call.rows) /\ IsMultiple(check_call.cols))
\* rejected for the column count alone
C17_Witness ==
    /\ check_call.pc = "exited"
    /\ IsMultiple(check_call.rows) /\ check_call.rows > 0
    /\ ~IsMultiple(check_call.cols)

\* ------------------------------------------------------------- message lengths
Peer(p) == IF p = "S" THEN "R" ELSE "S"
SendsOf(p) == SelectSeq(wire, LAMBDA e : e.from = p)
SentOf(p) == SelectSeq(sent, LAMBDA e : e.from = p)
ReadsBy(p) == SelectSeq(reads, LAMBDA e : e.by = p)
\* the blocks in flight towards p
ChannelTo(p) == IF p = "S" THEN chanRS ELSE chanSR

\* C18: the k-th receive call of a party returns exactly the blocks of the
\* k-th send call of the other party, which is the message it is reading (same
\* kind, same column or row), and the channel holds nothing but the blocks of
\* the send calls not yet read, in order: no length and no framing is on the
\* channel, and no receive returns part of a message or blocks of two.
C18_LengthAgreement ==
    /\ Len(sent) = Len(wire)
    /\ \A k \in 1..Len(wire) :
          sent[k].from = wire[k].from /\ Len(sent[k].blocks) = wire[k].len
    /\ \A p \in {"S", "R"} :
          LET rd == ReadsBy(p)
              sn == SendsOf(Peer(p))
              bl == SentOf(Peer(p))
          IN /\ Len(rd) <= Len(sn)
             /\ \A k \in 1..Len(rd) :
                   /\ rd[k].tag = sn[k].tag
                   /\ rd[k].idx = sn[k].idx
                   /\ Len(rd[k].blocks) = sn[k].len
                   /\ rd[k].blocks = bl[k].blocks
             /\ ChannelTo(p) = Flatten(SubSeq(bl, Len(rd) + 1, Len(bl)), Len(bl) - Len(rd))
    /\ \A k \in 1..Len(reads) :
          Len(reads[k].blocks) =
              IF reads[k].tag \in {"C0", "C1"} THEN RowBlocks
              ELSE IF reads[k].tag \in {"outer_C0", "outer_C1"} THEN EXTEND_LEN
              ELSE IF reads[k].tag = "outer_C" THEN 1
              ELSE IF reads[k].tag = "base_pk" THEN BASE_LEN
              ELSE 2 * BASE_LEN
\* a whole run of two row blocks in which every send call was read
C18_Witness ==
    /\ s_pc = "done" /\ r_pc = "done"
    /\ EXTEND_LEN = 2 * BlockBits
    /\ Len(reads) = Len(wire)
    /\ Len(wire) >= 2 + 2 * BASE_LEN + 2

\* ------------------------------------------------------------- the flag
\* a run with a PP whose malicious byte is either value (Setup() writes 0; a
\* PP fetched from a file holds the byte of the file)
InitFlag ==
    /\ variant \in Variants
    /\ EXTEND_LEN \in Lengths
    /\ hashId = "perm"
    /\ vec_m0 = (IF variant = "std" THEN MsgVector0(0, EXTEND_LEN) ELSE <<>>)
    /\ vec_m1 = (IF variant = "std" THEN MsgVector1(0, EXTEND_LEN) ELSE <<>>)
    /\ vec_m = (IF variant = "os" THEN MsgVector1(0, EXTEND_LEN) ELSE <<>>)
    /\ \E k \in 0..(NumSel - 1) : r_vec_selection_bit = SelVector(k, EXTEND_LEN)
    /\ SenderIdle
    /\ ReceiverIdle
    /\ NetIdle
    /\ pp \in [malicious : {0, 1}, baseOT : {DefaultPP.baseOT}]
    /\ PPIdle
    /\ check_call = NoCheck
SpecFlag == InitFlag /\ [][Next]_vars

\* The blocks of the send call that wire names e, from the inputs (r, the
\* messages, the hash) and the values drawn (s, T, K0, K1) alone.
PayloadOf(e) ==
    LET R == FromSparseBits(r_vec_selection_bit, ROW_NUM)
        S == FromSparseBits(s_vec_selection_bit, BASE_LEN)
        Tcol == FromDenseBits(T, e.idx * ROW_NUM, ROW_NUM)
        QRow(i) == IF r_vec_selection_bit[i + 1] = 0 THEN RowOf(T, i)
                   ELSE BlockXOR(RowOf(T, i), S)
    IN IF e.tag = "base_pk" THEN BasePublicKeys
       ELSE IF e.tag = "base_Y" THEN vec_K0 \o vec_K1
       ELSE IF e.tag = "C0"
            THEN BlockXOR(Tcol, GenRandomBlocks(SetSeed(vec_K0[e.idx + 1]), RowBlocks))
       ELSE IF e.tag = "C1"
            THEN BlockXOR(BlockXOR(Tcol, R),
                          GenRandomBlocks(SetSeed(vec_K1[e.idx + 1]), RowBlocks))
       ELSE IF e.tag = "outer_C0"
            THEN [p \in 1..ROW_NUM |->
                    XorBlock(vec_m0[p], BlocksToBlock(hashId, QRow(p - 1)))]
       ELSE IF e.tag = "outer_C1"
            THEN [p \in 1..ROW_NUM |->
                    XorBlock(vec_m1[p], BlocksToBlock(hashId, BlockXOR(QRow(p - 1), S)))]
       ELSE <<XorBlock(vec_m[e.idx + 1], BlocksToBlock(hashId, BlockXOR(QRow(e.idx), S)))>>
\* what the receiver returns, from the inputs alone
ResultOf ==
    IF variant = "std"
    THEN [p \in 1..EXTEND_LEN |->
            IF r_vec_selection_bit[p] = 0 THEN vec_m0[p] ELSE vec_m1[p]]
    ELSE PickOnes(vec_m, r_vec_selection_bit, EXTEND_LEN)
FlagFree ==
    /\ \A k \in 1..Len(wire) : sent[k].blocks = PayloadOf(wire[k])
    /\ returned.ok => returned.value = ResultOf

\* C19: no step of Send, Receive, OnesidedSend or OnesidedReceive changes
\* the public parameters, and whatever the malicious flag is, every message
\* sent and the result returned are the same functions of the inputs and of
\* the random values drawn.
C19_PPReadOnly ==
    /\ [][pp' = pp]_vars
    /\ []FlagFree
\* a whole run of two row blocks under a PP whose flag is set
C19_Witness ==
    /\ pp.malicious = 1
    /\ s_pc = "done" /\ r_pc = "done"
    /\ EXTEND_LEN = 2 * BlockBits
    /\ returned.ok
    /\ HasZeroAndOne(r_vec_selection_bit)

\* ------------------------------------------------------------- row reads
RowReads == SelectSeq(reads, LAMBDA e : e.tag = "outer_C")

\* C20: at every point of the row loop of OnesidedReceive, and after it, one
\* block has been read for each processed row, in row order, whatever the
\* row's selection bit; the result holds one block for each processed row with
\* r[i] = 1; and the blocks still in flight are those of the rows the sender
\* has sent and the receiver has not processed.
C20_ConsumesEveryRow ==
    (variant = "os" /\ r_pc \in {"recv_row", "done"}) =>
        /\ Len(RowReads) = r_i
        /\ \A k \in 1..Len(RowReads) :
              /\ RowReads[k].by = "R"
              /\ RowReads[k].idx = k - 1
              /\ Len(RowReads[k].blocks) = 1
        /\ Len(vec_result) = HammingWeight(r_vec_selection_bit, r_i)
        /\ Len(chanSR) = s_i - r_i
\* in the middle of the loop, after a row with r[i] = 0 and a row with
\* r[i] = 1
C20_Witness ==
    /\ variant = "os" /\ r_pc = "recv_row"
    /\ EXTEND_LEN = 2 * BlockBits
    /\ r_i = 2
    /\ r_vec_selection_bit[1] = 0 /\ r_vec_selection_bit[2] = 1
    /\ Len(vec_result) = 1


\* ------------------------------------------------------------- PP file
\* operator<< / operator>> of NPOT::PP: the group element as PointBytes bytes
SerializeBasePP(b) == [k \in 1..PointBytes |-> (b.g \div (ByteMod ^ (k - 1))) % ByteMod]
RECURSIVE BytesToInt(_, _)
BytesToInt(bytes, n) ==
    IF n = 0 THEN 0 ELSE bytes[n] * (ByteMod ^ (n - 1)) + BytesToInt(bytes, n - 1)
DeserializeBasePP(bytes) == [g |-> BytesToInt(bytes, PointBytes)]

\* operator<<(fout, pp): fout << pp.baseOT; fout << pp.malicious
SerializePP(q) == SerializeBasePP(q.baseOT) \o <<q.malicious>>

DeserializePPMaliciousFirst(stream) ==
    [malicious |-> stream[1],
     baseOT |-> DeserializeBasePP(SubSeq(stream, 2, PointBytes + 1))]

\* operator>>(fin, pp): fin >> pp.baseOT; fin >> pp.malicious
DeserializePP(stream) ==
    [malicious |-> stream[PointBytes + 1],
     baseOT |-> DeserializeBasePP(SubSeq(stream, 1, PointBytes))]

\* SavePP(pp, pp_filename): the file is opened and written, or cannot be opened
PP_Save ==
    /\ pp_status # "open_error"
    /\ \/ /\ file' = [exists |-> TRUE, bytes |-> SerializePP(pp)]
          /\ pp_saved' = pp
          /\ pp_status' = "saved"
       \/ /\ pp_status' = "open_error"
          /\ UNCHANGED <<file, pp_saved>>
    /\ UNCHANGED <<pp, pp_fetched>>
    /\ UNCHANGED <<cfgVars, sndVars, rcvVars, netVars, chkVars>>

\* FetchPP(pp, pp_filename), into another PP object
PP_Fetch ==
    /\ pp_status # "open_error"
    /\ IF file.exists
       THEN /\ pp_fetched' = DeserializePP(file.bytes)
            /\ pp_status' = "fetched"
       ELSE /\ pp_status' = "open_error"
            /\ UNCHANGED pp_fetched
    /\ UNCHANGED <<pp, file, pp_saved>>
    /\ UNCHANGED <<cfgVars, sndVars, rcvVars, netVars, chkVars>>

\* no protocol run: a PP of any value is held (from Setup() or otherwise), and
\* only its file and the PP fetched from it change
InitPP ==
    /\ variant = "std"
    /\ EXTEND_LEN = BlockBits
    /\ hashId = "perm"
    /\ vec_m0 = MsgVector0(0, EXTEND_LEN)
    /\ vec_m1 = MsgVector1(0, EXTEND_LEN)
    /\ vec_m = <<>>
    /\ r_vec_selection_bit = SelVector(0, EXTEND_LEN)
    /\ SenderIdle
    /\ ReceiverIdle
    /\ NetIdle
    /\ pp \in PPs
    /\ PPIdle
    /\ check_call = NoCheck
NextPP == PP_Save \/ PP_Fetch
SpecPP == InitPP /\ [][NextPP]_vars

\* C9: the PP file always holds the serialized base-OT parameter of the PP
\* last saved followed by its malicious byte and nothing else, and a PP
\* fetched from it equals the PP last saved.
C9_RoundTrip ==
    /\ file.exists =>
          /\ Len(file.bytes) = PointBytes + 1
          /\ SubSeq(file.bytes, 1, PointBytes) = SerializeBasePP(pp_saved.baseOT)
          /\ file.bytes[PointBytes + 1] = pp_saved.malicious
    /\ pp_status = "fetched" => pp_fetched = pp_saved
\* a PP whose bytes all differ was saved and fetched
C9_Witness ==
    /\ pp_status = "fetched"
    /\ pp_saved.malicious = MaxByte
    /\ pp_saved.baseOT.g = 1
    /\ pp_fetched = pp_saved

\* ------------------------------------------------------------- I/O failure
\* the places where Receive / OnesidedReceive are in a NetIO or base-OT call
IOPoints == {"base_wait", "column", "recv_outer_C0", "recv_outer_C1", "recv_row"}

\* a NetIO operation of the receiver fails: the failure leaves Receive /
\* OnesidedReceive, which has no handler and no return statement on the way
R_IOFail ==
    /\ r_pc \in IOPoints
    /\ r_pc' = "failed"
    /\ returned' = Returned(r_pc', vec_result)
    /\ UNCHANGED <<r_seed, T, vec_K0, vec_K1, r_j, r_vec_outer_C0, r_vec_outer_C1,
                   r_i, vec_result, r_prg>>
    /\ UNCHANGED <<cfgVars, sndVars, netVars, ppVars, chkVars>>

NextFail == Next \/ R_IOFail
FailSpec == Init /\ [][NextFail]_vars

=============================================================================
